---- MODULE Spec2Model ----
(***************************************************************************)
(* The Algorand HTLC bridge applications of contracts/algorand, as state   *)
(* machines over the application's local state (one HTLC record per        *)
(* account), its global state and the balance of the application account.  *)
(*                                                                         *)
(* An application call is one atomic step: a failed Assert, a failed inner *)
(* payment or a type error rejects the call and nothing it wrote remains.  *)
(* Every call, accepted or rejected, is recorded in `last` with the label  *)
(* of the first check that failed ("ok" when the call is approved), and    *)
(* the inner payment it submitted is recorded in `xfer`.                   *)
(***************************************************************************)
EXTENDS Integers, Sequences, FiniteSets, TLC

VARIABLES
    variant,        \* which of the contract files is deployed
    now,            \* Global.latest_timestamp()
    global,         \* global state of the HTLC variants (Creator, MinTimelock, ...)
    optedIn,        \* optedIn[a]: account a holds local state of the application
    local,          \* local[a]: the local state of account a, a record key -> value
    balance,        \* balance of Global.current_application_address()
    paid,           \* paid[a]: payouts made for the record a holds now
    last,           \* the last call: operation, sender, result
    xfer,           \* the inner payment submitted by the last call
    \* global state of the partial-fill variants
    total_deposited, total_filled, remaining_amount, executed, refunded,
    hashlock, timelock, recipient, maker, partial_fills_enabled,
    finalized,      \* number of calls that wrote executed = 1 or refunded = 1
    original_maker  \* the maker stored by the first create_htlc

htlcVars == <<global, optedIn, local, balance, paid>>
pfVars == <<total_deposited, total_filled, remaining_amount, executed, refunded,
            hashlock, timelock, recipient, maker, partial_fills_enabled, finalized,
            original_maker>>
vars == <<variant, now, last, xfer, htlcVars, pfVars>>

(***************************************************************************)
(* Bounds of the model.                                                    *)
(***************************************************************************)
MaxAmount == 2      \* amounts passed to create are 0..MaxAmount
MaxLate == 0        \* the clock is read up to MinTimelock + MaxLate
MaxBalance == 2     \* the application account is funded up to MaxBalance
MaxDeposited == 3   \* deposits are accepted while total_deposited <= MaxDeposited
MaxFilled == 4      \* fills are accepted while total_filled <= MaxFilled

(***************************************************************************)
(* Program constants.                                                      *)
(***************************************************************************)
MinTimelock == 3600
MaxTimelock == 86400

HTLCVariants == {"Bridge", "Fixed", "EthToAlgo", "AlgoToEth", "Minimal"}
Accounts == {"a1", "a2"}
AppAddr == "app"
Deployer == "a1"

Ids == {"h1"}
CallIds == Ids \cup {"h2"}
Secrets == {"", "s1", "s2"}
Recipients == {"a2"}
Initiators == {"a1"}
Amounts == 0..MaxAmount
Readings == {0} \cup {MinTimelock + k : k \in (-1)..MaxLate}
TimelockArgs == {MinTimelock, MaxTimelock + 1}

\* Sha256 on the secrets of the model: the first four bytes of the digest.
Sha256(s) ==
    CASE s = "" -> "e3b0c442"
      [] s = "s1" -> "e8bc163c"
      [] s = "s2" -> "ad328846"

Hashlocks == {Sha256("s1")}
\* ALGO->ETH reads the stored secret back: its creators also lock on the
\* digest of the empty secret.
AlgoToEthHashlocks == Hashlocks \cup {Sha256("")}
HashlockArgs == IF variant = "AlgoToEth" THEN AlgoToEthHashlocks ELSE Hashlocks
StatusVariants == {"Bridge", "Fixed"}
UpdateKeys == {"Creator", "MinTimelock"}
UpdateValues == {"a2"}

NoLocal == [k \in {} |-> 0]
NoXfer == [src |-> "-", dst |-> "-", amt |-> 0]

\* App.localGet of a key holding a uint64: 0 when the key is not set.
LocalUint(a, k) == IF k \in DOMAIN local[a] THEN local[a][k] ELSE 0
\* App.localGet(a, k) == b for a byte string b: an unset key reads as the
\* uint64 0, which equals no byte string.
LocalBytesIs(a, k, b) == k \in DOMAIN local[a] /\ local[a][k] = b

Result(op, a, res) == [op |-> op, sender |-> a, res |-> res]

(***************************************************************************)
(* Inner payments.  InnerTxnBuilder.SetFields names a type, an amount and  *)
(* a receiver and no sender: the sender of an inner transaction is the     *)
(* application account.  Submit fails, and with it the whole call, when    *)
(* the application account does not hold the amount.                       *)
(***************************************************************************)
InnerTxnSender == AppAddr
CanPay(amt) == balance >= amt
BalanceAfter(x) ==
    balance - (IF x.src = AppAddr THEN x.amt ELSE 0)
            + (IF x.dst = AppAddr THEN x.amt ELSE 0)

(***************************************************************************)
(* handle_creation: the global state after the application is created.     *)
(***************************************************************************)
\* A value of the global state is a uint64 or a byte string; arithmetic on a
\* byte string fails the call.
Uint(n) == [uint |-> n]
Bytes(b) == [bytes |-> b]
IsUint(v) == "uint" \in DOMAIN v

handle_creation ==
    [Creator |-> Bytes(Deployer), EthChainId |-> Uint(11155111),
     EthContract |-> Bytes("0x0000000000000000000000000000000000000000"),
     MinTimelock |-> Uint(MinTimelock), MaxTimelock |-> Uint(MaxTimelock)]
NoGlobal == [k \in {} |-> 0]

(***************************************************************************)
(* create_htlc.  The result is the first check that fails.                 *)
(***************************************************************************)
\* Fixed_create_result without the amount assertion.
Fixed_create_result_no_amount(a, amt, tl) ==
    IF ~IsUint(global.MinTimelock) THEN "type"
    ELSE IF ~(tl >= now + global.MinTimelock.uint) THEN "timelock_min"
    ELSE IF ~IsUint(global.MaxTimelock) THEN "type"
    ELSE IF ~(tl <= now + global.MaxTimelock.uint) THEN "timelock_max"
    ELSE IF ~optedIn[a] THEN "optin"
    ELSE IF "HtlcId" \in DOMAIN local[a] THEN "exists"
    ELSE IF ~CanPay(amt) THEN "itxn"
    ELSE "ok"

Fixed_create_result(a, amt, tl) ==
    IF ~IsUint(global.MinTimelock) THEN "type"
    ELSE IF ~(tl >= now + global.MinTimelock.uint) THEN "timelock_min"
    ELSE IF ~IsUint(global.MaxTimelock) THEN "type"
    ELSE IF ~(tl <= now + global.MaxTimelock.uint) THEN "timelock_max"
    ELSE IF ~(amt > 0) THEN "amount"
    ELSE IF ~optedIn[a] THEN "optin"
    ELSE IF "HtlcId" \in DOMAIN local[a] THEN "exists"
    ELSE IF ~CanPay(amt) THEN "itxn"
    ELSE "ok"

Fixed_create_record(id, init, rcpt, amt, hl, tl) ==
    [HtlcId |-> id, Initiator |-> init, Recipient |-> rcpt, Amount |-> amt,
     Hashlock |-> hl, Timelock |-> tl, EthAddress |-> "",
     Withdrawn |-> 0, Refunded |-> 0]

\* AlgorandHTLCBridge reads the HTLC id from application_args[0], the
\* argument the dispatch compares with "create".
Bridge_create_result(a, amt, tl) ==
    IF ~IsUint(global.MinTimelock) THEN "type"
    ELSE IF ~(tl >= now + global.MinTimelock.uint) THEN "timelock_min"
    ELSE IF ~IsUint(global.MaxTimelock) THEN "type"
    ELSE IF ~(tl <= now + global.MaxTimelock.uint) THEN "timelock_max"
    ELSE IF ~(amt > 0) THEN "amount"
    ELSE IF ~optedIn[a] THEN "optin"
    ELSE IF "HtlcId" \in DOMAIN local[a] THEN "exists"
    ELSE IF ~CanPay(amt) THEN "itxn"
    ELSE "ok"

Bridge_create_record(init, rcpt, amt, hl, tl) ==
    [HtlcId |-> "create", Initiator |-> init, Recipient |-> rcpt, Amount |-> amt,
     Hashlock |-> hl, Timelock |-> tl, EthAddress |-> "",
     Withdrawn |-> 0, Refunded |-> 0]

EthToAlgo_create_result(a, amt) ==
    IF ~(amt > 0) THEN "amount"
    ELSE IF ~optedIn[a] THEN "optin"
    ELSE IF "HtlcId" \in DOMAIN local[a] THEN "exists"
    ELSE IF ~CanPay(amt) THEN "itxn"
    ELSE "ok"

EthToAlgo_create_record(id, rcpt, amt, hl, tl) ==
    [HtlcId |-> id, Recipient |-> rcpt, Amount |-> amt,
     Hashlock |-> hl, Timelock |-> tl, Withdrawn |-> 0, Refunded |-> 0]

AlgoToEth_create_result(a, amt) ==
    IF ~(amt > 0) THEN "amount"
    ELSE IF ~optedIn[a] THEN "optin"
    ELSE IF "HtlcId" \in DOMAIN local[a] THEN "exists"
    ELSE IF ~CanPay(amt) THEN "itxn"
    ELSE "ok"

AlgoToEth_create_record(id, rcpt, amt, hl, tl) ==
    [HtlcId |-> id, EthRecipient |-> rcpt, Amount |-> amt,
     Hashlock |-> hl, Timelock |-> tl, Withdrawn |-> 0, Refunded |-> 0,
     Secret |-> ""]

CreateVariants == {"Bridge", "Fixed", "EthToAlgo", "AlgoToEth"}

create_result(a, amt, tl) ==
    CASE variant = "Fixed" -> Fixed_create_result(a, amt, tl)
      [] variant = "Bridge" -> Bridge_create_result(a, amt, tl)
      [] variant = "EthToAlgo" -> EthToAlgo_create_result(a, amt)
      [] variant = "AlgoToEth" -> AlgoToEth_create_result(a, amt)

create_record(id, init, rcpt, amt, hl, tl) ==
    CASE variant = "Fixed" -> Fixed_create_record(id, init, rcpt, amt, hl, tl)
      [] variant = "Bridge" -> Bridge_create_record(init, rcpt, amt, hl, tl)
      [] variant = "EthToAlgo" -> EthToAlgo_create_record(id, rcpt, amt, hl, tl)
      [] variant = "AlgoToEth" -> AlgoToEth_create_record(id, rcpt, amt, hl, tl)

\* "Transfer ALGO to contract": a payment of amt to the application address.
create_payment(a, amt) ==
    [src |-> InnerTxnSender, dst |-> AppAddr, amt |-> amt]

create_htlc(a, id, init, rcpt, amt, hl, tl) ==
    LET res == create_result(a, amt, tl)
        x == create_payment(a, amt)
    IN  /\ variant \in CreateVariants
        /\ hl \in HashlockArgs
        /\ last' = Result("create", a, res)
        /\ IF res = "ok"
           THEN /\ local' = [local EXCEPT
                                ![a] = create_record(id, init, rcpt, amt, hl, tl)]
                /\ xfer' = x
                /\ balance' = BalanceAfter(x)
           ELSE /\ xfer' = NoXfer
                /\ UNCHANGED <<local, balance>>
        /\ UNCHANGED <<variant, now, global, optedIn, paid, pfVars>>

(***************************************************************************)
(* withdraw_htlc and refund_htlc write their flag with App.localPut and    *)
(* then submit the payout.  A failed submit fails the application call,    *)
(* and a failed call leaves the local state as it was before the call,     *)
(* whatever the call had written.                                          *)
(***************************************************************************)
\* rejected_local that keeps the flag written before a failed payout.
rejected_local_keeps_flag(res, written) ==
    IF res = "itxn" THEN written ELSE local

rejected_local(res, written) == local

(***************************************************************************)
(* withdraw_htlc / claim_htlc.                                             *)
(***************************************************************************)
\* Fixed_withdraw_result without the hashlock assertion.
Fixed_withdraw_result_no_hash(a, id, secret) ==
    IF ~optedIn[a] THEN "optin"
    ELSE IF ~LocalBytesIs(a, "HtlcId", id) THEN "id"
    ELSE IF ~(LocalUint(a, "Withdrawn") = 0) THEN "withdrawn"
    ELSE IF ~(LocalUint(a, "Refunded") = 0) THEN "refunded"
    ELSE IF ~(now < LocalUint(a, "Timelock")) THEN "expired"
    ELSE IF ~CanPay(LocalUint(a, "Amount")) THEN "itxn"
    ELSE "ok"

\* Fixed_withdraw_result without the timelock assertion.
Fixed_withdraw_result_no_expiry(a, id, secret) ==
    IF ~optedIn[a] THEN "optin"
    ELSE IF ~LocalBytesIs(a, "HtlcId", id) THEN "id"
    ELSE IF ~(LocalUint(a, "Withdrawn") = 0) THEN "withdrawn"
    ELSE IF ~(LocalUint(a, "Refunded") = 0) THEN "refunded"
    ELSE IF ~LocalBytesIs(a, "Hashlock", Sha256(secret)) THEN "hash"
    ELSE IF ~CanPay(LocalUint(a, "Amount")) THEN "itxn"
    ELSE "ok"

Fixed_withdraw_result(a, id, secret) ==
    IF ~optedIn[a] THEN "optin"
    ELSE IF ~LocalBytesIs(a, "HtlcId", id) THEN "id"
    ELSE IF ~(LocalUint(a, "Withdrawn") = 0) THEN "withdrawn"
    ELSE IF ~(LocalUint(a, "Refunded") = 0) THEN "refunded"
    ELSE IF ~(now < LocalUint(a, "Timelock")) THEN "expired"
    ELSE IF ~LocalBytesIs(a, "Hashlock", Sha256(secret)) THEN "hash"
    ELSE IF ~CanPay(LocalUint(a, "Amount")) THEN "itxn"
    ELSE "ok"

EthToAlgo_claim_result(a, id, secret) ==
    IF ~optedIn[a] THEN "optin"
    ELSE IF ~LocalBytesIs(a, "HtlcId", id) THEN "id"
    ELSE IF ~(LocalUint(a, "Withdrawn") = 0) THEN "withdrawn"
    ELSE IF ~(LocalUint(a, "Refunded") = 0) THEN "refunded"
    ELSE IF ~(now < LocalUint(a, "Timelock")) THEN "expired"
    ELSE IF ~LocalBytesIs(a, "Hashlock", Sha256(secret)) THEN "hash"
    ELSE IF ~CanPay(LocalUint(a, "Amount")) THEN "itxn"
    ELSE "ok"

\* AlgorandHTLCBridge reads the HTLC id from application_args[0], which the
\* dispatch has compared with "withdraw".
Bridge_withdraw_result(a, secret) ==
    IF ~optedIn[a] THEN "optin"
    ELSE IF ~LocalBytesIs(a, "HtlcId", "withdraw") THEN "id"
    ELSE IF ~(LocalUint(a, "Withdrawn") = 0) THEN "withdrawn"
    ELSE IF ~(LocalUint(a, "Refunded") = 0) THEN "refunded"
    ELSE IF ~(now < LocalUint(a, "Timelock")) THEN "expired"
    ELSE IF ~LocalBytesIs(a, "Hashlock", Sha256(secret)) THEN "hash"
    ELSE IF ~CanPay(LocalUint(a, "Amount")) THEN "itxn"
    ELSE "ok"

Minimal_claim_result(a, id, secret) ==
    IF ~optedIn[a] THEN "optin"
    ELSE IF ~LocalBytesIs(a, "HtlcId", id) THEN "id"
    ELSE IF ~(LocalUint(a, "Withdrawn") = 0) THEN "withdrawn"
    ELSE IF ~LocalBytesIs(a, "Hashlock", Sha256(secret)) THEN "hash"
    ELSE IF ~CanPay(LocalUint(a, "Amount")) THEN "itxn"
    ELSE "ok"

ClaimVariants == {"Bridge", "Fixed", "EthToAlgo", "Minimal"}

withdraw_result(a, id, secret) ==
    CASE variant = "Fixed" -> Fixed_withdraw_result(a, id, secret)
      [] variant = "Bridge" -> Bridge_withdraw_result(a, secret)
      [] variant = "EthToAlgo" -> EthToAlgo_claim_result(a, id, secret)
      [] variant = "Minimal" -> Minimal_claim_result(a, id, secret)

\* "Transfer ALGO to recipient".
withdraw_payment(a) ==
    [src |-> InnerTxnSender, dst |-> local[a].Recipient,
     amt |-> LocalUint(a, "Amount")]

withdraw_htlc(a, id, secret) ==
    LET res == withdraw_result(a, id, secret)
    IN  /\ variant \in ClaimVariants
        /\ last' = Result("withdraw", a, res)
        /\ IF res = "ok"
           THEN LET x == withdraw_payment(a)
                IN  /\ local' = [local EXCEPT ![a].Withdrawn = 1]
                    /\ xfer' = x
                    /\ balance' = BalanceAfter(x)
                        /\ paid' = [paid EXCEPT
                                  ![a] = Append(@, [to |-> x.dst, amt |-> x.amt])]
           ELSE /\ xfer' = NoXfer
                /\ local' = rejected_local(res, [local EXCEPT ![a].Withdrawn = 1])
                /\ UNCHANGED <<balance, paid>>
        /\ UNCHANGED <<variant, now, global, optedIn, pfVars>>

(***************************************************************************)
(* refund_htlc.                                                            *)
(***************************************************************************)
\* Fixed_refund_result without the Withdrawn assertion.
Fixed_refund_result_no_withdrawn(a, id) ==
    IF ~optedIn[a] THEN "optin"
    ELSE IF ~LocalBytesIs(a, "HtlcId", id) THEN "id"
    ELSE IF ~(LocalUint(a, "Refunded") = 0) THEN "refunded"
    ELSE IF ~(now >= LocalUint(a, "Timelock")) THEN "not_expired"
    ELSE IF ~CanPay(LocalUint(a, "Amount")) THEN "itxn"
    ELSE "ok"

Fixed_refund_result(a, id) ==
    IF ~optedIn[a] THEN "optin"
    ELSE IF ~LocalBytesIs(a, "HtlcId", id) THEN "id"
    ELSE IF ~(LocalUint(a, "Withdrawn") = 0) THEN "withdrawn"
    ELSE IF ~(LocalUint(a, "Refunded") = 0) THEN "refunded"
    ELSE IF ~(now >= LocalUint(a, "Timelock")) THEN "not_expired"
    ELSE IF ~CanPay(LocalUint(a, "Amount")) THEN "itxn"
    ELSE "ok"

EthToAlgo_refund_result(a, id) ==
    IF ~optedIn[a] THEN "optin"
    ELSE IF ~LocalBytesIs(a, "HtlcId", id) THEN "id"
    ELSE IF ~(LocalUint(a, "Withdrawn") = 0) THEN "withdrawn"
    ELSE IF ~(LocalUint(a, "Refunded") = 0) THEN "refunded"
    ELSE IF ~(now >= LocalUint(a, "Timelock")) THEN "not_expired"
    ELSE IF ~CanPay(LocalUint(a, "Amount")) THEN "itxn"
    ELSE "ok"

\* AlgorandHTLCBridge reads the HTLC id from application_args[0], which the
\* dispatch has compared with "refund".
Bridge_refund_result(a) ==
    IF ~optedIn[a] THEN "optin"
    ELSE IF ~LocalBytesIs(a, "HtlcId", "refund") THEN "id"
    ELSE IF ~(LocalUint(a, "Withdrawn") = 0) THEN "withdrawn"
    ELSE IF ~(LocalUint(a, "Refunded") = 0) THEN "refunded"
    ELSE IF ~(now >= LocalUint(a, "Timelock")) THEN "not_expired"
    ELSE IF ~CanPay(LocalUint(a, "Amount")) THEN "itxn"
    ELSE "ok"

RefundVariants == {"Bridge", "Fixed", "EthToAlgo"}

refund_result(a, id) ==
    CASE variant = "Fixed" -> Fixed_refund_result(a, id)
      [] variant = "Bridge" -> Bridge_refund_result(a)
      [] variant = "EthToAlgo" -> EthToAlgo_refund_result(a, id)

\* Fixed_refund_payment with Txn.sender() as the receiver.
Fixed_refund_payment_to_sender(a) ==
    [src |-> InnerTxnSender, dst |-> a, amt |-> LocalUint(a, "Amount")]

\* "Transfer ALGO back to initiator": the stored Initiator.
Fixed_refund_payment(a) ==
    [src |-> InnerTxnSender, dst |-> local[a].Initiator,
     amt |-> LocalUint(a, "Amount")]

\* The receiver is Txn.sender().
EthToAlgo_refund_payment(a) ==
    [src |-> InnerTxnSender, dst |-> a, amt |-> LocalUint(a, "Amount")]

refund_payment(a) ==
    IF variant = "EthToAlgo" THEN EthToAlgo_refund_payment(a)
    ELSE Fixed_refund_payment(a)

refund_htlc(a, id) ==
    LET res == refund_result(a, id)
    IN  /\ variant \in RefundVariants
        /\ last' = Result("refund", a, res)
        /\ IF res = "ok"
           THEN LET x == refund_payment(a)
                IN  /\ local' = [local EXCEPT ![a].Refunded = 1]
                    /\ xfer' = x
                    /\ balance' = BalanceAfter(x)
                        /\ paid' = [paid EXCEPT
                                  ![a] = Append(@, [to |-> x.dst, amt |-> x.amt])]
           ELSE /\ xfer' = NoXfer
                /\ local' = rejected_local(res, [local EXCEPT ![a].Refunded = 1])
                /\ UNCHANGED <<balance, paid>>
        /\ UNCHANGED <<variant, now, global, optedIn, pfVars>>

(***************************************************************************)
(* reveal_secret (ALGO->ETH).                                              *)
(***************************************************************************)
\* reveal_secret_result without the hashlock assertion.
reveal_secret_result_no_hash(a, id, secret) ==
    IF ~optedIn[a] THEN "optin"
    ELSE IF ~LocalBytesIs(a, "HtlcId", id) THEN "id"
    ELSE IF ~LocalBytesIs(a, "Secret", "") THEN "secret_set"
    ELSE "ok"

reveal_secret_result(a, id, secret) ==
    IF ~optedIn[a] THEN "optin"
    ELSE IF ~LocalBytesIs(a, "HtlcId", id) THEN "id"
    ELSE IF ~LocalBytesIs(a, "Secret", "") THEN "secret_set"
    ELSE IF ~LocalBytesIs(a, "Hashlock", Sha256(secret)) THEN "hash"
    ELSE "ok"

\* reveal_secret_record that also sets Withdrawn.
reveal_secret_record_withdrawn(a, secret) ==
    [local[a] EXCEPT !.Secret = secret, !.Withdrawn = 1]

reveal_secret_record(a, secret) == [local[a] EXCEPT !.Secret = secret]

reveal_secret(a, id, secret) ==
    LET res == reveal_secret_result(a, id, secret)
    IN  /\ variant = "AlgoToEth"
        /\ last' = Result("reveal_secret", a, res)
        /\ xfer' = NoXfer
        /\ IF res = "ok"
           THEN local' = [local EXCEPT ![a] = reveal_secret_record(a, secret)]
           ELSE UNCHANGED local
        /\ UNCHANGED <<variant, now, global, optedIn, balance, paid, pfVars>>

(***************************************************************************)
(* OptIn and CloseOut are approved whatever the arguments.  OptIn gives    *)
(* the sender an empty local state; CloseOut deletes the sender's local    *)
(* state.                                                                  *)
(***************************************************************************)
OptIn(a) ==
    /\ variant \in HTLCVariants
    /\ ~optedIn[a]
    /\ optedIn' = [optedIn EXCEPT ![a] = TRUE]
    /\ local' = [local EXCEPT ![a] = NoLocal]
    /\ last' = Result("optin", a, "ok")
    /\ xfer' = NoXfer
    /\ UNCHANGED <<variant, now, global, balance, paid, pfVars>>

CloseOut(a) ==
    /\ variant \in HTLCVariants
    /\ optedIn[a]
    /\ optedIn' = [optedIn EXCEPT ![a] = FALSE]
    /\ local' = [local EXCEPT ![a] = NoLocal]
    /\ paid' = [paid EXCEPT ![a] = <<>>]
    /\ last' = Result("closeout", a, "ok")
    /\ xfer' = NoXfer
    /\ UNCHANGED <<variant, now, global, balance, pfVars>>

(***************************************************************************)
(* get_htlc_status returns the HtlcId slot of the sender's local state as  *)
(* the call's result: the call is rejected, on the uint64 0 of an unset    *)
(* slot and on the byte string of a set one.                               *)
(***************************************************************************)
get_htlc_status_result(a) ==
    IF ~optedIn[a] THEN "optin"
    ELSE IF "HtlcId" \in DOMAIN local[a] THEN "bytes"
    ELSE "zero"

get_htlc_status(a) ==
    /\ variant \in StatusVariants
    /\ last' = Result("status", a, get_htlc_status_result(a))
    /\ xfer' = NoXfer
    /\ UNCHANGED <<variant, now, htlcVars, pfVars>>

(***************************************************************************)
(* update_contract: the creator stores a byte string under a key of the    *)
(* global state.  AlgorandHTLCBridge takes the key from application_args[0],*)
(* the argument the dispatch compares with "update".                       *)
(***************************************************************************)
update_contract_result(a) ==
    IF global.Creator # Bytes(a) THEN "not_creator" ELSE "ok"

update_contract_key(key) == IF variant = "Bridge" THEN "update" ELSE key

update_contract(a, key, value) ==
    /\ variant \in StatusVariants
    /\ LET res == update_contract_result(a)
           k == update_contract_key(key)
       IN  /\ global' = IF res = "ok"
                        THEN [f \in DOMAIN global \cup {k} |->
                                 IF f = k THEN Bytes(value) ELSE global[f]]
                        ELSE global
           /\ last' = Result("update", a, res)
    /\ xfer' = NoXfer
    /\ UNCHANGED <<variant, now, optedIn, local, balance, paid, pfVars>>

(***************************************************************************)
(* The dispatch of the HTLC variants reads Txn.on_completion() before the  *)
(* selector in application_args[0]; AlgorandHTLCBridgeFixed first rejects  *)
(* a call without arguments.                                               *)
(***************************************************************************)
NoArgs == "-"
Selectors == {"create_htlc", "claim_htlc", "refund_htlc", "update", NoArgs}

\* HTLC_dispatch that compares the selector only.
HTLC_dispatch_selector_only(oc, sel) == sel

\* The branch the program takes: "approve", "reject", or the selector whose
\* handler runs.
HTLC_dispatch(oc, sel) ==
    IF variant = "Fixed" /\ sel = NoArgs THEN "reject"
    ELSE IF oc = "OptIn" THEN "approve"
    ELSE IF oc = "CloseOut" THEN "approve"
    ELSE IF oc = "UpdateApplication" THEN "reject"
    ELSE IF oc = "DeleteApplication" THEN "reject"
    ELSE sel

\* A call whose completion would update or delete the application.
rejected_completion(a, oc, sel) ==
    /\ variant \in HTLCVariants
    /\ HTLC_dispatch(oc, sel) = "reject"
    /\ last' = Result(oc, a, "rejected")
    /\ xfer' = NoXfer
    /\ UNCHANGED <<variant, now, htlcVars, pfVars>>

(***************************************************************************)
(* The environment: the relayer pre-funds the application account with a   *)
(* plain payment, and the clock advances.                                  *)
(***************************************************************************)
Fund(f) ==
    /\ variant \in HTLCVariants
    /\ balance + f <= MaxBalance
    /\ balance' = balance + f
    /\ last' = Result("fund", "-", "ok")
    /\ xfer' = NoXfer
    /\ UNCHANGED <<variant, now, global, optedIn, local, paid, pfVars>>

\* Only the HTLC variants read Global.latest_timestamp().
Tick(t) ==
    /\ variant \in HTLCVariants
    /\ t > now
    /\ now' = t
    /\ last' = Result("tick", "-", "ok")
    /\ xfer' = NoXfer
    /\ UNCHANGED <<variant, htlcVars, pfVars>>

(***************************************************************************)
(* The partial-fill variants: state after handle_creation.                 *)
(***************************************************************************)
Absent == "-"

InitPF ==
    /\ total_deposited = 0
    /\ total_filled = 0
    /\ remaining_amount = 0
    /\ executed = 0
    /\ refunded = 0
    /\ partial_fills_enabled = 0
    /\ hashlock = Absent
    /\ timelock = 0
    /\ recipient = Absent
    /\ maker = Absent
    /\ finalized = 0
    /\ original_maker = Absent

InitHTLCState ==
    /\ optedIn = [a \in Accounts |-> FALSE]
    /\ local = [a \in Accounts |-> NoLocal]
    /\ balance = 0
    /\ paid = [a \in Accounts |-> <<>>]

InitHTLC ==
    /\ variant \in HTLCVariants
    /\ now = 0
    /\ global = IF variant \in StatusVariants THEN handle_creation ELSE NoGlobal
    /\ InitHTLCState
    /\ last = Result("create_app", Deployer, "ok")
    /\ xfer = NoXfer
    /\ InitPF

NextHTLC ==
    \/ \E a \in Accounts, id \in Ids, init \in Initiators, rcpt \in Recipients,
          amt \in Amounts, hl \in AlgoToEthHashlocks, tl \in TimelockArgs :
            create_htlc(a, id, init, rcpt, amt, hl, tl)
    \/ \E a \in Accounts, id \in CallIds, secret \in Secrets :
            withdraw_htlc(a, id, secret)
    \/ \E a \in Accounts, id \in CallIds : refund_htlc(a, id)
    \/ \E a \in Accounts, id \in CallIds, secret \in Secrets :
            reveal_secret(a, id, secret)
    \/ \E a \in Accounts : get_htlc_status(a)
    \/ \E a \in Accounts, key \in UpdateKeys, value \in UpdateValues :
            update_contract(a, key, value)
    \/ \E a \in Accounts : OptIn(a)
    \/ \E a \in Accounts : CloseOut(a)
    \/ \E f \in 1..MaxBalance : Fund(f)
    \/ \E t \in Readings : Tick(t)

SpecHTLC == InitHTLC /\ [][NextHTLC]_vars

\* The clock advances, and a record holder whose refund would be approved
\* sends it.
RefundApproved(a) ==
    \E id \in CallIds : refund_htlc(a, id) /\ last'.res = "ok"

SpecHTLCFair ==
    /\ SpecHTLC
    /\ WF_vars(\E t \in Readings : Tick(t))
    /\ \A a \in Accounts : WF_vars(RefundApproved(a))

(***************************************************************************)
(* The partial-fill variants.  One swap lives in the global state of the   *)
(* application; no handler reads Txn.on_completion or the argument count,  *)
(* and no handler submits an inner transaction.                            *)
(***************************************************************************)
PFVariants == {"PartialFill", "FixedPartialFill"}
PFHashlocks == {Sha256("s1"), Sha256("s2")}
PFTimelocks == {MinTimelock}
PFRecipients == {"a2"}
DepositArgs == 0..MaxDeposited
FillArgs == 0..(MaxDeposited + 1)

\* handle_htlc_creation asserts nothing.
handle_htlc_creation(a, hl, tl, rcpt, mk, pfe) ==
    /\ variant \in PFVariants
    /\ hashlock' = hl
    /\ timelock' = tl
    /\ recipient' = rcpt
    /\ maker' = mk
    /\ partial_fills_enabled' = pfe
    /\ original_maker' = IF original_maker = Absent THEN mk ELSE original_maker
    /\ last' = Result("create_htlc", a, "ok")
    /\ xfer' = NoXfer
    /\ UNCHANGED <<now, htlcVars, total_deposited, total_filled,
                   remaining_amount, executed, refunded, finalized>>

\* handle_partial_fill_result without the fill_amount <= remaining assertion.
handle_partial_fill_result_no_over(fill, secret) ==
    IF ~(executed = 0) THEN "executed"
    ELSE IF ~(refunded = 0) THEN "refunded"
    ELSE IF ~(hashlock = Sha256(secret)) THEN "hash"
    ELSE IF ~(fill > 0) THEN "fill_zero"
    ELSE "ok"

\* handle_partial_fill_result with an assertion that partial fills are enabled.
handle_partial_fill_result_needs_flag(fill, secret) ==
    IF ~(executed = 0) THEN "executed"
    ELSE IF ~(refunded = 0) THEN "refunded"
    ELSE IF ~(partial_fills_enabled = 1) THEN "disabled"
    ELSE IF ~(hashlock = Sha256(secret)) THEN "hash"
    ELSE IF ~(fill > 0) THEN "fill_zero"
    ELSE IF ~(fill <= remaining_amount) THEN "fill_over"
    ELSE "ok"

\* An unset hashlock reads as the uint64 0, which equals no digest.
handle_partial_fill_result(fill, secret) ==
    IF ~(executed = 0) THEN "executed"
    ELSE IF ~(refunded = 0) THEN "refunded"
    ELSE IF ~(hashlock = Sha256(secret)) THEN "hash"
    ELSE IF ~(fill > 0) THEN "fill_zero"
    ELSE IF ~(fill <= remaining_amount) THEN "fill_over"
    ELSE "ok"

\* fill_remaining without the subtraction.
fill_remaining_unchanged(fill) == remaining_amount

\* fill_total that stores the fill instead of adding it.
fill_total_overwrite(fill) == fill

fill_total(fill) == total_filled + fill
fill_remaining(fill) == remaining_amount - fill
\* "Mark as executed if fully filled".
fill_executed(fill) == IF remaining_amount - fill = 0 THEN 1 ELSE executed

handle_partial_fill(a, fill, secret) ==
    LET res == handle_partial_fill_result(fill, secret)
    IN  /\ variant \in PFVariants
        /\ res = "ok" => total_filled + fill <= MaxFilled
        /\ last' = Result("partial_fill", a, res)
        /\ xfer' = NoXfer
        /\ IF res = "ok"
           THEN /\ total_filled' = fill_total(fill)
                /\ remaining_amount' = fill_remaining(fill)
                /\ executed' = fill_executed(fill)
                /\ finalized' = IF remaining_amount - fill = 0
                                THEN finalized + 1 ELSE finalized
           ELSE UNCHANGED <<total_filled, remaining_amount, executed, finalized>>
        /\ UNCHANGED <<now, htlcVars, original_maker,
                       total_deposited, refunded,
                       hashlock, timelock, recipient, maker, partial_fills_enabled>>

\* handle_withdrawal_result without the executed assertion.
handle_withdrawal_result_no_executed(a) ==
    IF ~(refunded = 0) THEN "refunded"
    ELSE IF ~(a = maker) THEN "not_maker"
    ELSE "ok"

\* An unset maker reads as the uint64 0, which equals no sender.
handle_withdrawal_result(a) ==
    IF ~(executed = 0) THEN "executed"
    ELSE IF ~(refunded = 0) THEN "refunded"
    ELSE IF ~(a = maker) THEN "not_maker"
    ELSE "ok"

handle_withdrawal(a) ==
    LET res == handle_withdrawal_result(a)
    IN  /\ variant \in PFVariants
        /\ last' = Result("withdraw", a, res)
        /\ xfer' = NoXfer
        /\ IF res = "ok"
           THEN refunded' = 1 /\ finalized' = finalized + 1
           ELSE UNCHANGED <<refunded, finalized>>
        /\ UNCHANGED <<now, htlcVars, original_maker,
                       total_deposited, total_filled,
                       remaining_amount, executed, hashlock, timelock, recipient,
                       maker, partial_fills_enabled>>

\* handle_public_claim_result without the refunded assertion.
handle_public_claim_result_no_refunded(secret) ==
    IF ~(executed = 0) THEN "executed"
    ELSE IF ~(hashlock = Sha256(secret)) THEN "hash"
    ELSE "ok"

handle_public_claim_result(secret) ==
    IF ~(executed = 0) THEN "executed"
    ELSE IF ~(refunded = 0) THEN "refunded"
    ELSE IF ~(hashlock = Sha256(secret)) THEN "hash"
    ELSE "ok"

handle_public_claim(a, secret) ==
    LET res == handle_public_claim_result(secret)
    IN  /\ variant \in PFVariants
        /\ last' = Result("public_claim", a, res)
        /\ xfer' = NoXfer
        /\ IF res = "ok"
           THEN executed' = 1 /\ finalized' = finalized + 1
           ELSE UNCHANGED <<executed, finalized>>
        /\ UNCHANGED <<now, htlcVars, original_maker,
                       total_deposited, total_filled,
                       remaining_amount, refunded, hashlock, timelock, recipient,
                       maker, partial_fills_enabled>>

\* AlgorandPartialFillBridge has no "deposit" branch: its Cond matches nothing
\* and the call is rejected.  handle_deposit asserts nothing.
\* handle_deposit_result with a deposit branch in both files.
handle_deposit_result_both_files == "ok"

handle_deposit_result ==
    IF variant = "FixedPartialFill" THEN "ok" ELSE "no_handler"

deposit_total(amount) == total_deposited + amount
deposit_remaining(amount) == total_deposited + amount

handle_deposit(a, amount) ==
    LET res == handle_deposit_result
    IN  /\ variant \in PFVariants
        /\ res = "ok" => total_deposited + amount <= MaxDeposited
        /\ last' = Result("deposit", a, res)
        /\ xfer' = NoXfer
        /\ IF res = "ok"
           THEN /\ total_deposited' = deposit_total(amount)
                /\ remaining_amount' = deposit_remaining(amount)
           ELSE UNCHANGED <<total_deposited, remaining_amount>>
        /\ UNCHANGED <<now, htlcVars, original_maker,
                       total_filled, executed, refunded,
                       hashlock, timelock, recipient, maker, partial_fills_enabled,
                       finalized>>

(***************************************************************************)
(* The dispatch of the partial-fill variants compares application_args[0]  *)
(* only: the handler runs whatever Txn.on_completion() is.  An approved    *)
(* call with completion UpdateApplication replaces the program of the      *)
(* application by the one the call carries, and an approved call with      *)
(* DeleteApplication deletes the application.                              *)
(***************************************************************************)
ProgramChanging == {"UpdateApplication", "DeleteApplication"}
OnCompletions == {"NoOp"} \cup ProgramChanging

\* The program installed after an approved call with completion oc.
ProgramAfter(oc) ==
    CASE oc = "UpdateApplication" -> "replaced"
      [] oc = "DeleteApplication" -> "deleted"
      [] OTHER -> variant

on_completion(oc) ==
    variant' = IF last'.res = "ok" THEN ProgramAfter(oc) ELSE variant

create_htlc_call(oc, a, hl, tl, rcpt, mk, pfe) ==
    handle_htlc_creation(a, hl, tl, rcpt, mk, pfe) /\ on_completion(oc)

partial_fill_call(oc, a, fill, secret) ==
    handle_partial_fill(a, fill, secret) /\ on_completion(oc)

withdraw_call(oc, a) ==
    handle_withdrawal(a) /\ on_completion(oc)

public_claim_call(oc, a, secret) ==
    handle_public_claim(a, secret) /\ on_completion(oc)

deposit_call(oc, a, amount) ==
    handle_deposit(a, amount) /\ on_completion(oc)

InitPartialFill ==
    /\ variant \in PFVariants
    /\ now = 0
    /\ global = NoGlobal
    /\ InitHTLCState
    /\ last = Result("create_app", Deployer, "ok")
    /\ xfer = NoXfer
    /\ InitPF

NextPF ==
    \/ \E oc \in OnCompletions, a \in Accounts, hl \in PFHashlocks,
          tl \in PFTimelocks, rcpt \in PFRecipients, mk \in Accounts,
          pfe \in {0, 1} :
            create_htlc_call(oc, a, hl, tl, rcpt, mk, pfe)
    \/ \E oc \in OnCompletions, a \in Accounts, fill \in FillArgs,
          secret \in Secrets :
            partial_fill_call(oc, a, fill, secret)
    \/ \E oc \in OnCompletions, a \in Accounts : withdraw_call(oc, a)
    \/ \E oc \in OnCompletions, a \in Accounts, secret \in Secrets :
            public_claim_call(oc, a, secret)
    \/ \E oc \in OnCompletions, a \in Accounts, amount \in DepositArgs :
            deposit_call(oc, a, amount)

SpecPF == InitPartialFill /\ [][NextPF]_vars

(***************************************************************************)
(* Every deployed program under every call: the calls above, and for the   *)
(* HTLC variants the calls whose completion would update or delete the     *)
(* application, which their dispatch rejects before any handler.           *)
(***************************************************************************)
InitDispatch == InitHTLC \/ InitPartialFill

NextDispatch ==
    \/ NextHTLC
    \/ NextPF
    \/ \E a \in Accounts, oc \in ProgramChanging, sel \in Selectors :
            rejected_completion(a, oc, sel)

SpecDispatch == InitDispatch /\ [][NextDispatch]_vars

(***************************************************************************)
(* Properties.                                                             *)
(***************************************************************************)
HasRecord(a) == "HtlcId" \in DOMAIN local[a]
Pending(a) ==
    HasRecord(a) /\ LocalUint(a, "Withdrawn") = 0 /\ LocalUint(a, "Refunded") = 0
Terminal(a) ==
    HasRecord(a) /\ (LocalUint(a, "Withdrawn") = 1 \/ LocalUint(a, "Refunded") = 1)
\* The initiator of a's record: the stored Initiator, and in ETH->ALGO, which
\* stores none, the account that created the record.
InitiatorOf(a) == IF variant = "EthToAlgo" THEN a ELSE local[a].Initiator

RECURSIVE SumAmt(_)
SumAmt(s) == IF s = <<>> THEN 0 ELSE Head(s).amt + SumAmt(Tail(s))

PFTerminal == executed = 1 \/ refunded = 1

\* C1: in AlgorandHTLCBridgeFixed and ETH->ALGO, at most one claim-or-refund
\* call succeeds on a record, Withdrawn and Refunded are never both 1, and on
\* a record with either flag set every claim and every refund is rejected.
C1_AtMostOneSettlement ==
    variant \in {"Fixed", "EthToAlgo"} =>
        \A a \in Accounts :
            /\ Len(paid[a]) <= 1
            /\ ~(LocalUint(a, "Withdrawn") = 1 /\ LocalUint(a, "Refunded") = 1)
            /\ Terminal(a) =>
                  \A id \in CallIds :
                      /\ refund_result(a, id) # "ok"
                      /\ \A s \in Secrets : withdraw_result(a, id, s) # "ok"

\* A refund sent after the record was withdrawn and the timelock passed, rejected.
C1_Witness ==
    /\ variant = "Fixed"
    /\ last = Result("refund", "a1", "withdrawn")
    /\ Len(paid["a1"]) = 1
    /\ now >= LocalUint("a1", "Timelock")

\* C2: in the partial-fill engine executed and refunded are never both 1, at
\* most one call moves the swap into a terminal state, and on a terminal swap
\* every partial_fill, public_claim and withdraw is rejected.
C2_SingleTerminalTransition ==
    /\ ~(executed = 1 /\ refunded = 1)
    /\ finalized <= 1
    /\ PFTerminal =>
          /\ \A a \in Accounts : handle_withdrawal_result(a) # "ok"
          /\ \A s \in Secrets :
                /\ handle_public_claim_result(s) # "ok"
                /\ \A f \in FillArgs : handle_partial_fill_result(f, s) # "ok"

\* The maker's withdraw on an executed swap, rejected.
C2_Witness ==
    /\ executed = 1
    /\ finalized = 1
    /\ last.op = "withdraw" /\ last.sender = maker /\ last.res = "executed"

\* C3: the payouts made for a record never exceed its Amount, and they equal
\* Amount exactly when the record is terminal: one payment of Amount to the
\* recipient if Withdrawn = 1, one payment of Amount to the initiator if
\* Refunded = 1, none while the record is Pending.
C3_PayoutMatchesRecord ==
    \A a \in Accounts :
        IF ~HasRecord(a) THEN paid[a] = <<>>
        ELSE /\ SumAmt(paid[a]) <= local[a].Amount
             /\ (SumAmt(paid[a]) = local[a].Amount) <=> Terminal(a)
             /\ local[a].Withdrawn = 1 =>
                  paid[a] = <<[to |-> local[a].Recipient, amt |-> local[a].Amount]>>
             /\ local[a].Refunded = 1 =>
                  paid[a] = <<[to |-> InitiatorOf(a), amt |-> local[a].Amount]>>
             /\ Pending(a) => paid[a] = <<>>

\* A record refunded to its initiator, who is not the account holding it.
C3_Witness ==
    /\ variant = "Fixed"
    /\ HasRecord("a2")
    /\ local["a2"].Refunded = 1
    /\ paid["a2"] = <<[to |-> "a1", amt |-> MaxAmount]>>
    /\ last = Result("refund", "a2", "ok")

\* C4: every successful create issues one transfer of amount from the calling
\* account to the custody account, so that the custody balance grows by amount.
C4_CreateEscrowsFromCaller ==
    [][(last'.op = "create" /\ last'.res = "ok") =>
          /\ xfer'.src = last'.sender
          /\ xfer'.dst = AppAddr
          /\ xfer'.amt = local'[last'.sender].Amount
          /\ balance' = balance + xfer'.amt]_vars

\* C5: a claim on a Pending record with the secret of its hashlock, before the
\* timelock, succeeds; a successful claim has paid Amount once to the stored
\* recipient and set Withdrawn = 1, and repeating it is rejected.
C5_ClaimSucceedsOnce ==
    variant \in {"Fixed", "EthToAlgo"} =>
        /\ \A a \in Accounts, s \in Secrets :
              (/\ Pending(a)
               /\ LocalBytesIs(a, "Hashlock", Sha256(s))
               /\ now < local[a].Timelock)
                  => withdraw_result(a, local[a].HtlcId, s) = "ok"
        /\ (last.op = "withdraw" /\ last.res = "ok") =>
              /\ local[last.sender].Withdrawn = 1
              /\ xfer = [src |-> AppAddr, dst |-> local[last.sender].Recipient,
                         amt |-> local[last.sender].Amount]
              /\ paid[last.sender] = <<[to |-> xfer.dst, amt |-> xfer.amt]>>
              /\ \A id \in CallIds, s \in Secrets :
                    withdraw_result(last.sender, id, s) # "ok"

\* C6: a claim with a secret whose hash differs from the stored hashlock is
\* rejected in every state, changes no field of any record and issues no
\* transfer.
C6_WrongSecretRejected ==
    [][\A a \in Accounts, id \in CallIds, s \in Secrets :
          (/\ last'.op = "withdraw" /\ last'.sender = a
           /\ ~LocalBytesIs(a, "Hashlock", Sha256(s))
           /\ withdraw_htlc(a, id, s)) =>
              /\ last'.res # "ok"
              /\ local' = local
              /\ balance' = balance
              /\ paid' = paid
              /\ xfer' = NoXfer]_vars

\* A claim on a Pending, unexpired record rejected by the hashlock assertion.
C6_Witness ==
    /\ variant = "Fixed"
    /\ last = Result("withdraw", "a1", "hash")
    /\ Pending("a1")
    /\ now < local["a1"].Timelock

\* C7: a refund on a Pending record is rejected at every clock reading below
\* the timelock and succeeds at every reading at or after it; a successful
\* refund has set Refunded = 1 and paid Amount to the initiator, and a later
\* refund is rejected.
C7_RefundAtExpiry ==
    variant \in {"Fixed", "EthToAlgo"} =>
        /\ \A a \in Accounts :
              Pending(a) =>
                  IF now < local[a].Timelock
                  THEN refund_result(a, local[a].HtlcId) # "ok"
                  ELSE refund_result(a, local[a].HtlcId) = "ok"
        /\ (last.op = "refund" /\ last.res = "ok") =>
              /\ local[last.sender].Refunded = 1
              /\ xfer = [src |-> AppAddr, dst |-> InitiatorOf(last.sender),
                         amt |-> local[last.sender].Amount]
              /\ \A id \in CallIds : refund_result(last.sender, id) # "ok"

\* C8: in every variant with a secret-gated claim, a claim on a record at a
\* clock reading at or after the record's timelock is rejected, whatever the
\* secret, and leaves the records unchanged.
C8_ExpiredClaimRejected ==
    [][\A a \in Accounts, id \in CallIds, s \in Secrets :
          (/\ last'.op = "withdraw" /\ last'.sender = a
           /\ HasRecord(a)
           /\ now >= local[a].Timelock
           /\ withdraw_htlc(a, id, s)) =>
              /\ last'.res # "ok"
              /\ local' = local
              /\ balance' = balance
              /\ paid' = paid
              /\ xfer' = NoXfer]_vars

\* A claim with the secret of the hashlock rejected by the timelock assertion
\* at the boundary now = Timelock.
C8_Witness ==
    /\ variant = "Fixed"
    /\ last = Result("withdraw", "a1", "expired")
    /\ Pending("a1")
    /\ now = local["a1"].Timelock

\* C9: in FixedAlgorandPartialFillBridge the cumulative filled amount never
\* exceeds the total committed amount.
C9_FilledWithinDeposited ==
    variant = "FixedPartialFill" => total_filled <= total_deposited

\* C10: a deposit of amount increases total_deposited and remaining_amount by
\* exactly amount.
C10_DepositAddsToRemaining ==
    [][(last'.op = "deposit" /\ last'.res = "ok") =>
          \E amount \in DepositArgs :
              /\ total_deposited' = total_deposited + amount
              /\ remaining_amount' = remaining_amount + amount]_vars

\* C11: a successful partial_fill of f adds f to total_filled and subtracts f
\* from remaining_amount; it sets executed = 1 in the same call exactly when
\* the new remaining_amount is 0 and otherwise leaves the swap non-terminal;
\* no other call changes total_filled.
C11_FillAccounting ==
    [][/\ \A a \in Accounts, f \in FillArgs, s \in Secrets :
             (/\ last'.op = "partial_fill" /\ last'.res = "ok"
              /\ handle_partial_fill(a, f, s)) =>
                 /\ total_filled' = total_filled + f
                 /\ remaining_amount' = remaining_amount - f
                 /\ (executed' = 1) <=> (remaining_amount' = 0)
                 /\ refunded' = 0
       /\ ~(last'.op = "partial_fill" /\ last'.res = "ok") =>
             total_filled' = total_filled]_vars

\* A fill that brought remaining_amount to 0 and set executed in the same call.
C11_Witness ==
    /\ variant = "FixedPartialFill"
    /\ last.op = "partial_fill" /\ last.res = "ok"
    /\ total_deposited = 3
    /\ total_filled = 3
    /\ remaining_amount = 0
    /\ executed = 1
    /\ finalized = 1

\* C12: a partial_fill of 0 or of more than remaining_amount is rejected and
\* leaves total_filled, remaining_amount and executed unchanged; after a
\* successful fill f1, a fill f2 that was within the remaining amount before
\* it with f1 + f2 above that amount is rejected.
C12_OverdrawRejected ==
    [][\A a \in Accounts, f \in FillArgs, s \in Secrets :
          (last'.op = "partial_fill" /\ handle_partial_fill(a, f, s)) =>
              /\ (f = 0 \/ f > remaining_amount) =>
                    /\ last'.res # "ok"
                    /\ UNCHANGED <<total_filled, remaining_amount, executed>>
              /\ last'.res = "ok" =>
                    \A f2 \in FillArgs, s2 \in Secrets :
                        (f2 <= remaining_amount /\ f + f2 > remaining_amount) =>
                            handle_partial_fill_result(f2, s2)' # "ok"]_vars

\* A fill of 2 rejected as above the remaining 1 that an earlier fill of 2
\* left of the 3 deposited.
C12_Witness ==
    /\ variant = "FixedPartialFill"
    /\ last.op = "partial_fill" /\ last.res = "fill_over"
    /\ total_deposited = 3
    /\ total_filled = 2
    /\ remaining_amount = 1
    /\ executed = 0

\* C13: every successful partial_fill of f issues one transfer of f from
\* custody to the calling resolver or the designated recipient; a rejected
\* partial_fill issues none.
C13_FillPaysResolver ==
    [][last'.op = "partial_fill" =>
          IF last'.res = "ok"
          THEN /\ xfer'.src = AppAddr
               /\ xfer'.dst \in {last'.sender, recipient}
               /\ total_filled' = total_filled + xfer'.amt
          ELSE xfer' = NoXfer]_vars

\* C14: deposit is rejected, leaving total_deposited and remaining_amount
\* unchanged, whenever the swap is terminal.
C14_DepositRejectedWhenTerminal ==
    [][(PFTerminal /\ last'.op = "deposit") =>
          /\ last'.res # "ok"
          /\ UNCHANGED <<total_deposited, remaining_amount>>]_vars

\* C15: the hashlock of a swap is written once; no later call changes it.
C15_HashlockWrittenOnce ==
    [][hashlock # Absent => hashlock' = hashlock]_vars

\* C16: a create naming an id for which a record exists is rejected, whichever
\* account sends it; a create naming an id no record has is not rejected as
\* a duplicate.
C16_DuplicateIdRejected ==
    variant = "Fixed" =>
        \A id \in CallIds, b \in Accounts, amt \in Amounts, tl \in TimelockArgs :
            IF \E a \in Accounts : LocalBytesIs(a, "HtlcId", id)
            THEN create_result(b, amt, tl) # "ok"
            ELSE create_result(b, amt, tl) # "exists"

\* C17: in AlgorandHTLCBridgeFixed a create with amount 0, with timelock below
\* now + MinTimelock or with timelock above now + MaxTimelock is rejected with
\* no record written and no transfer; an approved create writes a record with
\* Withdrawn = 0, Refunded = 0 and the supplied amount, hashlock, timelock,
\* initiator and recipient.
C17_CreateChecksAndRecord ==
    [][\A a \in Accounts, id \in Ids, init \in Initiators, rcpt \in Recipients,
          amt \in Amounts, hl \in Hashlocks, tl \in TimelockArgs :
          (/\ variant = "Fixed"
           /\ last'.op = "create" /\ last'.sender = a
           /\ create_htlc(a, id, init, rcpt, amt, hl, tl)) =>
              /\ (amt = 0 \/ tl < now + MinTimelock \/ tl > now + MaxTimelock) =>
                    /\ last'.res # "ok"
                    /\ local' = local
                    /\ balance' = balance
                    /\ xfer' = NoXfer
              /\ last'.res = "ok" =>
                    local'[a] = [HtlcId |-> id, Initiator |-> init,
                                 Recipient |-> rcpt, Amount |-> amt,
                                 Hashlock |-> hl, Timelock |-> tl,
                                 EthAddress |-> "", Withdrawn |-> 0,
                                 Refunded |-> 0]]_vars

\* An approved create of the largest amount by an account other than the
\* initiator it names.
C17_Witness ==
    /\ variant = "Fixed"
    /\ last = Result("create", "a2", "ok")
    /\ Pending("a2")
    /\ local["a2"].Amount = MaxAmount
    /\ local["a2"].Initiator = "a1"
    /\ local["a2"].Timelock = now + MinTimelock

\* C18: every record written by create has
\* creation time + MinTimelock <= Timelock <= creation time + MaxTimelock.
C18_TimelockWithinBounds ==
    [][(last'.op = "create" /\ last'.res = "ok") =>
          /\ now + MinTimelock <= local'[last'.sender].Timelock
          /\ local'[last'.sender].Timelock <= now + MaxTimelock]_vars

\* C19: right after every approved create_htlc of the partial-fill engine
\* total_filled is 0, remaining_amount is the total committed amount and the
\* swap is Pending.
C19_CreateStartsPending ==
    [][(last'.op = "create_htlc" /\ last'.res = "ok") =>
          /\ total_filled' = 0
          /\ remaining_amount' = total_deposited'
          /\ executed' = 0
          /\ refunded' = 0]_vars

\* C20: once the swap is terminal no call changes any of its fields.
C20_TerminalFrozen ==
    [][PFTerminal =>
          UNCHANGED <<executed, refunded, total_filled, remaining_amount,
                      total_deposited, hashlock, timelock, recipient, maker>>]_vars

\* C21: in ALGO->ETH a record's stored Secret is empty or hashes to the
\* record's stored Hashlock.
C21_StoredSecretMatchesHashlock ==
    variant = "AlgoToEth" =>
        \A a \in Accounts :
            HasRecord(a) =>
                \/ local[a].Secret = ""
                \/ Sha256(local[a].Secret) = local[a].Hashlock

\* A record holding the revealed, non-empty secret of its hashlock.
C21_Witness ==
    /\ variant = "AlgoToEth"
    /\ last = Result("reveal_secret", "a1", "ok")
    /\ HasRecord("a1")
    /\ local["a1"].Secret = "s1"
    /\ local["a1"].Hashlock = Sha256("s1")

\* C22: at most one reveal_secret succeeds on a record: after an approved
\* reveal every reveal_secret on the record is rejected.
C22_RevealAtMostOnce ==
    (last.op = "reveal_secret" /\ last.res = "ok") =>
        \A id \in CallIds, s \in Secrets :
            reveal_secret_result(last.sender, id, s) # "ok"

\* C23: an approved reveal_secret changes only the Secret field of the
\* sender's record and issues no transfer; a rejected one changes nothing.
C23_RevealFrame ==
    [][last'.op = "reveal_secret" =>
          /\ xfer' = NoXfer
          /\ balance' = balance
          /\ paid' = paid
          /\ optedIn' = optedIn
          /\ IF last'.res = "ok"
             THEN /\ \A b \in Accounts \ {last'.sender} : local'[b] = local[b]
                  /\ DOMAIN local'[last'.sender] = DOMAIN local[last'.sender]
                  /\ \A k \in DOMAIN local[last'.sender] \ {"Secret"} :
                        local'[last'.sender][k] = local[last'.sender][k]
             ELSE local' = local]_vars

\* An approved reveal that stored a non-empty secret on a Pending record.
C23_Witness ==
    /\ variant = "AlgoToEth"
    /\ last = Result("reveal_secret", "a2", "ok")
    /\ Pending("a2")
    /\ local["a2"].Secret = "s1"
    /\ local["a2"].Amount = MaxAmount

\* C24: no secret-gated operation accepts the empty secret against a
\* non-empty stored hashlock.
C24_EmptySecretRejected ==
    \A a \in Accounts, id \in CallIds :
        (HasRecord(a) /\ local[a].Hashlock # "") =>
            /\ variant \in ClaimVariants => withdraw_result(a, id, "") # "ok"
            /\ variant = "AlgoToEth" => reveal_secret_result(a, id, "") # "ok"

\* C25: the global configuration is changed only by update calls of the
\* administrator captured at creation; an update from any other sender is
\* rejected and changes nothing, and no update changes who the
\* administrator is.
C25_OnlyAdministratorUpdates ==
    [][(variant \in StatusVariants) =>
          /\ (global' # global) =>
                (last'.op = "update" /\ last'.sender = Deployer)
          /\ (last'.op = "update" /\ last'.sender # Deployer) =>
                (last'.res # "ok" /\ global' = global)
          /\ global'.Creator = global.Creator
      ]_vars

\* C29: in AlgorandHTLCBridge, on a Pending record with hashlock Sha256(s) a
\* withdraw by its sender with secret s before the timelock is approved, and
\* a refund at or after the timelock is approved.
C29_BridgeSettles ==
    variant = "Bridge" =>
        \A a \in Accounts, s \in Secrets :
            (/\ Pending(a)
             /\ LocalBytesIs(a, "Hashlock", Sha256(s))
             /\ CanPay(local[a].Amount)) =>
                IF now < local[a].Timelock
                THEN \E id \in CallIds \cup {"withdraw"} :
                        withdraw_result(a, id, s) = "ok"
                ELSE \E id \in CallIds \cup {"refund"} :
                        refund_result(a, id) = "ok"

\* C30: after an approved claim the record's secret field is set and hashes
\* to the record's hashlock.
C30_ClaimRecordsSecret ==
    variant \in {"Fixed", "EthToAlgo"} =>
        \A a \in Accounts :
            (HasRecord(a) /\ local[a].Withdrawn = 1) =>
                /\ "Secret" \in DOMAIN local[a]
                /\ Sha256(local[a].Secret) = local[a].Hashlock

\* C26: withdraw is approved only on a non-terminal swap and for the maker
\* recorded when the swap was created; it sets refunded = 1, after which
\* every partial_fill is rejected; no other account brings the swap to
\* Refunded.
C26_OnlyMakerRefunds ==
    [][/\ (last'.op = "withdraw" /\ last'.res = "ok") =>
             /\ ~PFTerminal
             /\ last'.sender = original_maker
             /\ refunded' = 1
             /\ \A f \in FillArgs, s \in Secrets :
                   handle_partial_fill_result(f, s)' # "ok"
       /\ (refunded = 0 /\ refunded' = 1) => last'.sender = original_maker
      ]_vars

\* C27: public_claim is approved exactly when the swap is non-terminal and
\* the secret hashes to the stored hashlock; approved, it sets executed = 1
\* and changes nothing else; rejected, it changes nothing.
C27_PublicClaim ==
    [][\A a \in Accounts, s \in Secrets :
          (last'.op = "public_claim" /\ handle_public_claim(a, s)) =>
              /\ (last'.res = "ok") <=>
                    (executed = 0 /\ refunded = 0 /\ hashlock = Sha256(s))
              /\ IF last'.res = "ok"
                 THEN /\ executed' = 1
                      /\ UNCHANGED <<total_filled, remaining_amount,
                                     total_deposited, refunded, hashlock,
                                     timelock, recipient, maker,
                                     partial_fills_enabled>>
                 ELSE UNCHANGED pfVars]_vars

\* A public_claim approved on a partly filled swap.
C27_Witness ==
    /\ variant = "FixedPartialFill"
    /\ last.op = "public_claim" /\ last.res = "ok"
    /\ executed = 1
    /\ total_filled = 1
    /\ remaining_amount = 1
    /\ total_deposited = 2

\* The last clock reading of the model.
ClockEnd == MinTimelock + MaxLate

\* C28: in every variant whose create escrows funds, with the clock advancing
\* and the record holder's refund sent once it would be approved, every
\* Pending record whose timelock the clock reaches eventually stops being
\* Pending.
C28_RecordsSettle ==
    \A a \in Accounts :
        (/\ variant \in CreateVariants
         /\ Pending(a)
         /\ local[a].Timelock <= ClockEnd) ~> ~Pending(a)

\* The fields of a's record that are fixed when the record is created.
IdentityKeys(a) == DOMAIN local[a] \ {"Withdrawn", "Refunded", "Secret"}

\* C31: no accepted application call, OptIn and CloseOut included, removes a
\* Pending record or changes its id, amount, hashlock, timelock, initiator or
\* recipient.
C31_PendingRecordKept ==
    [][\A a \in Accounts :
          Pending(a) =>
              \A k \in IdentityKeys(a) :
                  k \in DOMAIN local'[a] /\ local'[a][k] = local[a][k]]_vars

RecordOps == {"create", "withdraw", "refund", "reveal_secret"}

\* C32: an operation sent by account a never changes the record held for a
\* different account b, and it commutes with every operation on b's record:
\* whether b's create, claim, refund or reveal is approved is the same before
\* and after a's operation.
C32_IndependentRecords ==
    [][\A a \in Accounts :
          (last'.sender = a /\ last'.op \in RecordOps) =>
              \A b \in Accounts \ {a} :
                  /\ local'[b] = local[b]
                  /\ paid'[b] = paid[b]
                  /\ \A id \in CallIds, s \in Secrets :
                        /\ variant \in ClaimVariants =>
                              ((withdraw_result(b, id, s) = "ok")
                                  <=> (withdraw_result(b, id, s)' = "ok"))
                        /\ variant \in RefundVariants =>
                              ((refund_result(b, id) = "ok")
                                  <=> (refund_result(b, id)' = "ok"))
                        /\ variant = "AlgoToEth" =>
                              ((reveal_secret_result(b, id, s) = "ok")
                                  <=> (reveal_secret_result(b, id, s)' = "ok"))
                  /\ \A amt \in Amounts, tl \in TimelockArgs :
                        variant \in CreateVariants =>
                            ((create_result(b, amt, tl) = "ok")
                                <=> (create_result(b, amt, tl)' = "ok"))]_vars

SettleOps == {"withdraw", "refund"}

Outcome(res) == IF res = "ok" THEN "approved" ELSE "rejected"

RetryableCauses == {"not_expired"}
PermanentCauses == {"hash", "withdrawn", "refunded"}

\* C34: what a rejected call returns identifies its cause: a refund rejected
\* because the timelock has not passed (retryable) is told apart from a claim
\* or refund rejected for a wrong secret or a finalized record (permanent).
C34_RejectionCauseReturned ==
    variant \in RefundVariants =>
        \A a \in Accounts, b \in Accounts, id \in CallIds, s \in Secrets :
            (/\ refund_result(a, id) \in RetryableCauses
             /\ withdraw_result(b, id, s) \in PermanentCauses) =>
                Outcome(refund_result(a, id)) # Outcome(withdraw_result(b, id, s))

\* C35: total_filled is 0 when the application is created and no call ever
\* decreases it.
C35_TotalFilledMonotone ==
    /\ total_filled = 0
    /\ [][total_filled' >= total_filled]_vars

\* An approved fill that brought total_filled up to the whole deposit.
C35_Witness ==
    /\ last.op = "partial_fill" /\ last.res = "ok"
    /\ total_filled = 3
    /\ remaining_amount = 0
    /\ total_deposited = 3

TimedVariants == {"Fixed", "EthToAlgo"}

\* a holds a Pending record with id `id` whose hashlock is the digest of s.
PendingWithSecret(a, id, s) ==
    /\ optedIn[a]
    /\ Pending(a)
    /\ LocalBytesIs(a, "HtlcId", id)
    /\ LocalBytesIs(a, "Hashlock", Sha256(s))

\* C36: in AlgorandHTLCBridgeFixed and ETH->ALGO, on a Pending record and
\* with its secret, at every clock reading exactly one of claim and refund is
\* approved: the claim when now < Timelock, the refund when now >= Timelock;
\* the clock never goes back, and once the timelock is reached no claim on
\* the record is approved again.
C36_ExactlyOneOfClaimRefund ==
    /\ [](variant \in TimedVariants =>
            \A a \in Accounts, id \in CallIds, s \in Secrets :
                PendingWithSecret(a, id, s) =>
                    /\ (withdraw_result(a, id, s) = "ok") <=>
                           (now < local[a].Timelock)
                    /\ (refund_result(a, id) = "ok") <=>
                           (now >= local[a].Timelock))
    /\ [][/\ now' >= now
          /\ variant \in TimedVariants =>
                \A a \in Accounts, id \in CallIds, s \in Secrets :
                    (PendingWithSecret(a, id, s) /\ now >= local[a].Timelock) =>
                        withdraw_result(a, id, s)' # "ok"]_vars

C38_FlagNotRead ==
    [][(/\ partial_fills_enabled' # partial_fills_enabled
        /\ UNCHANGED <<total_deposited, total_filled, remaining_amount,
                       executed, refunded, hashlock, timelock, recipient,
                       maker>>) =>
          \A f \in FillArgs, s \in Secrets :
              /\ handle_partial_fill_result(f, s)' =
                     handle_partial_fill_result(f, s)
              /\ fill_total(f)' = fill_total(f)
              /\ fill_remaining(f)' = fill_remaining(f)
              /\ fill_executed(f)' = fill_executed(f)]_vars

\* A fill approved on a funded swap while partial_fills_enabled is 0.
C38_Witness ==
    /\ variant = "FixedPartialFill"
    /\ partial_fills_enabled = 0
    /\ last.op = "partial_fill" /\ last.res = "ok"
    /\ total_filled = 1
    /\ remaining_amount = 1
    /\ executed = 0

\* C39: the five HTLC variants reject every call whose completion is
\* UpdateApplication or DeleteApplication, whatever the sender and the
\* arguments, and their program is never replaced or deleted; the two
\* partial-fill variants run the handler whatever the completion: create_htlc
\* from any account (and deposit, where it exists) is approved with
\* completion UpdateApplication or DeleteApplication, which replaces or
\* deletes the program.
C39_CompletionType ==
    /\ [](variant \in HTLCVariants =>
            \A oc \in ProgramChanging, sel \in Selectors :
                HTLC_dispatch(oc, sel) = "reject")
    /\ [][(variant \in HTLCVariants) =>
             /\ variant' = variant
             /\ (last'.op \in ProgramChanging) =>
                   (last'.res = "rejected" /\ UNCHANGED <<htlcVars, now>>)]_vars
    /\ [][(last'.op = "create_htlc") =>
             \A oc \in ProgramChanging, a \in Accounts, hl \in PFHashlocks,
                tl \in PFTimelocks, rcpt \in PFRecipients, mk \in Accounts,
                pfe \in {0, 1} :
                 create_htlc_call(oc, a, hl, tl, rcpt, mk, pfe) =>
                     (last'.res = "ok" /\ variant' = ProgramAfter(oc))]_vars
    /\ [][(last'.op = "deposit" /\ variant = "FixedPartialFill") =>
             \A oc \in ProgramChanging, a \in Accounts, amount \in DepositArgs :
                 deposit_call(oc, a, amount) =>
                     (last'.res = "ok" /\ variant' = ProgramAfter(oc))]_vars

\* The partial-fill application deleted by a deposit call of an account that
\* did not deploy it.
C39_Witness ==
    /\ variant = "deleted"
    /\ last = Result("deposit", "a2", "ok")
    /\ total_deposited = 1
====
